---- MODULE Spec2Model ----
(***************************************************************************)
(* A model of system_health_monitor.py: the SystemHealthMonitor class      *)
(* (threshold construction, the six category queries, check_alerts,        *)
(* collect_all_metrics, save_to_file) and the loop of main().              *)
(*                                                                         *)
(* Python values are modelled as follows.                                  *)
(*   - a dict with string keys whose order does not matter is a TLA+       *)
(*     function (record); "k in d" is k \in DOMAIN d;                      *)
(*   - a dict whose iteration order matters (disk_info) is a sequence of   *)
(*     [key, val] items with distinct keys, in insertion order;            *)
(*   - a value whose Python type is tested with isinstance is tagged       *)
(*     (isdict);                                                           *)
(*   - a percent that may be None is [none |-> TRUE] or                    *)
(*     [none |-> FALSE, v |-> n];                                          *)
(*   - the result of a call is Return(v) or Raise(e), so that an           *)
(*     exception leaving a function is visible to its caller;              *)
(*   - percentages are integers (the code's floats, on the same scale).    *)
(***************************************************************************)
EXTENDS Integers, Sequences, FiniteSets, TLC

VARIABLES
    arg,              \* the alert_thresholds argument given to __init__
    alert_thresholds, \* self.alert_thresholds
    args,             \* main(): the parsed command line
    pc,               \* position of the running program
    snapshot,         \* collect_all_metrics: health_data under construction
    health_data,      \* the snapshot collect_all_metrics returned to its caller
    calls,            \* number of invocations of each category query in this collect
    returned,         \* what each category query returned in this collect
    failures,         \* categories whose OS query raised in this collect
    last_save,        \* outcome of the last save_to_file
    interrupted_at,   \* position at which KeyboardInterrupt was delivered
    partitions,       \* psutil.disk_partitions() with each partition's usage lookup
    disk_result,      \* what get_disk_info returned
    proc_iter,        \* psutil.process_iter(): the entries in enumeration order
    top_n,            \* get_process_info's top_n
    proc_result       \* what get_process_info returned

progVars == <<arg, alert_thresholds, args, pc, snapshot, health_data, calls,
              returned, failures, last_save, interrupted_at>>
diskVars == <<partitions, disk_result>>
procVars == <<proc_iter, top_n, proc_result>>
vars == <<progVars, diskVars, procVars>>

----------------------------------------------------------------------------
(* Bounds of the model *)

MaxPartitions == 2
MaxProcs == 3
MaxPid == 3
MaxTopN == 2

----------------------------------------------------------------------------
(* Python calls *)

Return(v) == [raised |-> FALSE, value |-> v]
Raise(e) == [raised |-> TRUE, exc |-> e]

Min(a, b) == IF a <= b THEN a ELSE b

Keys == {"cpu_percent", "memory_percent", "disk_percent"}

Categories == {"system", "cpu", "memory", "disk", "network", "processes"}

----------------------------------------------------------------------------
(* SystemHealthMonitor.__init__ *)

DefaultCpu == 80
DefaultMemory == 85
DefaultDisk == 90

DefaultThresholds ==
    [cpu_percent |-> DefaultCpu, memory_percent |-> DefaultMemory,
     disk_percent |-> DefaultDisk]

\* The argument: None, or a dict over some of the keys.
NoneArg == [isNone |-> TRUE, dict |-> <<>>]
DictArg(d) == [isNone |-> FALSE, dict |-> d]

\* Python truth value of the argument: None and the empty dict are false.
Truthy(a) == ~a.isNone /\ DOMAIN a.dict # {}

\* self.alert_thresholds = alert_thresholds or {defaults}
SystemHealthMonitor_init(a) == IF Truthy(a) THEN a.dict ELSE DefaultThresholds

----------------------------------------------------------------------------
(* Error markers *)

ErrorDict(msg) == [error |-> msg]

\* {'error': msg} where the dict's iteration order is modelled (disk_info)
ErrorItems(msg) == << [key |-> "error", val |-> [isdict |-> FALSE, str |-> msg]] >>

----------------------------------------------------------------------------
(* get_system_info, get_cpu_info, get_memory_info, get_network_info.       *)
(* out is what the psutil calls of the try block do: raise, or yield data. *)

get_system_info(out) ==
    IF out.raises THEN Return(ErrorDict("Failed to get system info"))
    ELSE Return([hostname |-> out.hostname])

get_cpu_info(out) ==
    IF out.raises THEN Return(ErrorDict("Failed to get CPU info"))
    ELSE Return([cpu_percent |-> out.percent])

get_memory_info_uncaught(out) ==
    IF out.raises THEN Raise("Exception")
    ELSE Return([memory_percent |-> out.percent])

get_memory_info(out) ==
    IF out.raises THEN Return(ErrorDict("Failed to get memory info"))
    ELSE Return([memory_percent |-> out.percent])

get_network_info(out) ==
    IF out.raises THEN Return(ErrorDict("Failed to get network info"))
    ELSE Return([lo |-> [bytes_sent |-> out.bytes_sent]])

----------------------------------------------------------------------------
(* get_disk_info *)

HasKey(d, k) == \E i \in 1..Len(d) : d[i].key = k

\* d[k] = v on a dict that keeps insertion order: an existing key keeps its
\* place and takes the new value, a new key goes last.
DictSet(d, k, v) ==
    IF HasKey(d, k)
    THEN [i \in 1..Len(d) |-> IF d[i].key = k THEN [key |-> k, val |-> v] ELSE d[i]]
    ELSE Append(d, [key |-> k, val |-> v])

\* round((usage.used / usage.total) * 100, 2), for a total that is not zero
DiskPercent(p) == (p.used * 100) \div p.total

RECURSIVE DiskLoop(_, _, _)
DiskLoop(parts, i, disk_info) ==
    IF i > Len(parts) THEN Return(disk_info)
    ELSE LET p == parts[i] IN
         IF p.lookup = "PermissionError" THEN DiskLoop(parts, i + 1, disk_info)
         ELSE IF p.lookup # "ok" THEN Raise(p.lookup)
         ELSE IF p.total = 0 THEN Raise("ZeroDivisionError")
         ELSE DiskLoop(parts, i + 1,
                       DictSet(disk_info, p.mountpoint,
                               [isdict |-> TRUE, percent |-> DiskPercent(p)]))

get_disk_info(out) ==
    LET body == IF out.raises THEN Raise("Exception")
                ELSE DiskLoop(out.partitions, 1, <<>>)
    IN IF body.raised THEN Return(ErrorItems("Failed to get disk info")) ELSE body

----------------------------------------------------------------------------
(* get_process_info *)

Null == [none |-> TRUE]
Num(n) == [none |-> FALSE, v |-> n]

\* x[field] or 0
KeyOf(x, field) == IF x[field].none THEN 0 ELSE x[field].v

RECURSIVE ProcLoop(_, _, _)
ProcLoop(entries, i, processes) ==
    IF i > Len(entries) THEN Return(processes)
    ELSE LET e == entries[i] IN
         IF e.access \in {"NoSuchProcess", "AccessDenied"}
         THEN ProcLoop(entries, i + 1, processes)
         ELSE IF e.access # "ok" THEN Raise(e.access)
         ELSE ProcLoop(entries, i + 1,
                       Append(processes,
                              [pid |-> e.pid, cpu_percent |-> e.cpu_percent,
                               memory_percent |-> e.memory_percent]))

\* One insertion of a stable descending sort: x goes after every element
\* whose key is at least its own.
RECURSIVE InsertDesc(_, _, _)
InsertDesc(s, x, field) ==
    IF s = <<>> THEN <<x>>
    ELSE IF KeyOf(Head(s), field) >= KeyOf(x, field)
         THEN <<Head(s)>> \o InsertDesc(Tail(s), x, field)
         ELSE <<x>> \o s

RECURSIVE SortFrom(_, _, _, _)
SortFrom(s, i, acc, field) ==
    IF i > Len(s) THEN acc
    ELSE SortFrom(s, i + 1, InsertDesc(acc, s[i], field), field)

\* A descending sort that does not keep the order of equal keys: x goes
\* before the elements whose key equals its own.
RECURSIVE InsertDescUnstable(_, _, _)
InsertDescUnstable(s, x, field) ==
    IF s = <<>> THEN <<x>>
    ELSE IF KeyOf(Head(s), field) > KeyOf(x, field)
         THEN <<Head(s)>> \o InsertDescUnstable(Tail(s), x, field)
         ELSE <<x>> \o s

RECURSIVE SortFromUnstable(_, _, _, _)
SortFromUnstable(s, i, acc, field) ==
    IF i > Len(s) THEN acc
    ELSE SortFromUnstable(s, i + 1, InsertDescUnstable(acc, s[i], field), field)

sorted_reverse_unstable(s, field) == SortFromUnstable(s, 1, <<>>, field)

\* sorted(s, key=lambda x: x[field] or 0, reverse=True): Python's sort is
\* stable, and reverse=True keeps the original order of equal keys.
sorted_reverse(s, field) == SortFrom(s, 1, <<>>, field)

\* s[:n] for n >= 0
Slice(s, n) == SubSeq(s, 1, Min(n, Len(s)))

\* total_processes counting every enumerated entry
get_process_info_counts_all(out, n) ==
    LET body == IF out.raises THEN Raise("Exception")
                ELSE ProcLoop(out.entries, 1, <<>>)
    IN IF body.raised THEN Return(ErrorDict("Failed to get process info"))
       ELSE Return([total_processes |-> Len(out.entries),
                    top_cpu_processes |->
                        Slice(sorted_reverse(body.value, "cpu_percent"), n),
                    top_memory_processes |->
                        Slice(sorted_reverse(body.value, "memory_percent"), n)])

get_process_info(out, n) ==
    LET body == IF out.raises THEN Raise("Exception")
                ELSE ProcLoop(out.entries, 1, <<>>)
    IN IF body.raised THEN Return(ErrorDict("Failed to get process info"))
       ELSE Return([total_processes |-> Len(body.value),
                    top_cpu_processes |->
                        Slice(sorted_reverse(body.value, "cpu_percent"), n),
                    top_memory_processes |->
                        Slice(sorted_reverse(body.value, "memory_percent"), n)])

----------------------------------------------------------------------------
(* check_alerts *)

CpuAlert(v, t) == [msg |-> "HIGH CPU USAGE", value |-> v, threshold |-> t]
MemoryAlert(v, t) == [msg |-> "HIGH MEMORY USAGE", value |-> v, threshold |-> t]
DiskAlert(m, v, t) ==
    [msg |-> "HIGH DISK USAGE", mount |-> m, value |-> v, threshold |-> t]

\* self.alert_thresholds[k] raises KeyError when k is not a key
CheckCpu(hd, thr) ==
    IF "cpu_info" \in DOMAIN hd /\ "cpu_percent" \in DOMAIN hd.cpu_info
    THEN IF "cpu_percent" \notin DOMAIN thr THEN Raise("KeyError")
         ELSE IF hd.cpu_info.cpu_percent > thr.cpu_percent
              THEN Return(<<CpuAlert(hd.cpu_info.cpu_percent, thr.cpu_percent)>>)
              ELSE Return(<<>>)
    ELSE Return(<<>>)

CheckMemory(hd, thr) ==
    IF "memory_info" \in DOMAIN hd /\ "memory_percent" \in DOMAIN hd.memory_info
    THEN IF "memory_percent" \notin DOMAIN thr THEN Raise("KeyError")
         ELSE IF hd.memory_info.memory_percent > thr.memory_percent
              THEN Return(<<MemoryAlert(hd.memory_info.memory_percent,
                                        thr.memory_percent)>>)
              ELSE Return(<<>>)
    ELSE Return(<<>>)

\* for mount_point, disk_data in disk_info.items(): ...
RECURSIVE CheckDiskItems(_, _, _, _)
CheckDiskItems(items, i, thr, alerts) ==
    IF i > Len(items) THEN Return(alerts)
    ELSE LET it == items[i] IN
         IF it.val.isdict /\ "percent" \in DOMAIN it.val
         THEN IF "disk_percent" \notin DOMAIN thr THEN Raise("KeyError")
              ELSE IF it.val.percent > thr.disk_percent
                   THEN CheckDiskItems(items, i + 1, thr,
                            Append(alerts, DiskAlert(it.key, it.val.percent,
                                                     thr.disk_percent)))
                   ELSE CheckDiskItems(items, i + 1, thr, alerts)
         ELSE CheckDiskItems(items, i + 1, thr, alerts)

CheckDisk(hd, thr) ==
    IF "disk_info" \in DOMAIN hd
    THEN CheckDiskItems(hd.disk_info, 1, thr, <<>>)
    ELSE Return(<<>>)

\* The disk alerts put in front of the others.
check_alerts_disk_first(hd, thr) ==
    LET c == CheckCpu(hd, thr)
        m == CheckMemory(hd, thr)
        d == CheckDisk(hd, thr)
    IN IF c.raised THEN c
       ELSE IF m.raised THEN m
       ELSE IF d.raised THEN d
       ELSE Return(d.value \o c.value \o m.value)

check_alerts(hd, thr) ==
    LET c == CheckCpu(hd, thr)
        m == CheckMemory(hd, thr)
        d == CheckDisk(hd, thr)
    IN IF c.raised THEN c
       ELSE IF m.raised THEN m
       ELSE IF d.raised THEN d
       ELSE Return(c.value \o m.value \o d.value)

----------------------------------------------------------------------------
(* What the operating system can answer *)

Mounts == {"/", "/data"}

\* One partition's psutil.disk_usage: usage figures, or an exception.
UsageOutcomes ==
    {[lookup |-> "ok", used |-> u, total |-> 100] : u \in {70, 90, 91}}
    \cup {[lookup |-> "ok", used |-> 0, total |-> 0]}
    \cup {[lookup |-> e, used |-> 0, total |-> 0] : e \in {"PermissionError", "OSError"}}

Partition(m, u) ==
    [mountpoint |-> m, lookup |-> u.lookup, used |-> u.used, total |-> u.total]

\* One entry of psutil.process_iter: its info, or an exception on reading it.
ProcOutcomes ==
    {[access |-> "ok", cpu_percent |-> c, memory_percent |-> m] :
        c \in {Null, Num(0), Num(1)}, m \in {Null, Num(1)}}
    \cup {[access |-> e, cpu_percent |-> Null, memory_percent |-> Null] :
            e \in {"NoSuchProcess", "AccessDenied", "OSError"}}

ProcEntry(pid, o) ==
    [pid |-> pid, access |-> o.access, cpu_percent |-> o.cpu_percent,
     memory_percent |-> o.memory_percent]

DefaultTopN == 5

TopNs == 0..MaxTopN \cup {DefaultTopN}

----------------------------------------------------------------------------
(* The program at rest: the values of the variables an operation under     *)
(* study does not use.                                                     *)

NoArgs == [main |-> FALSE]

NoCalls == [c \in Categories |-> 0]

ProgIdle(p) ==
    /\ arg = NoneArg
    /\ alert_thresholds = SystemHealthMonitor_init(NoneArg)
    /\ args = NoArgs
    /\ pc = p
    /\ snapshot = <<>>
    /\ health_data = <<>>
    /\ calls = NoCalls
    /\ returned = <<>>
    /\ failures = {}
    /\ last_save = "none"
    /\ interrupted_at = "none"

DiskIdle == partitions = <<>> /\ disk_result = Return(<<>>)

ProcIdle == proc_iter = <<>> /\ top_n = 0 /\ proc_result = Return(<<>>)

----------------------------------------------------------------------------
(* get_disk_info on every enumeration of partitions *)

InitDisk == ProgIdle("disk_partitions") /\ DiskIdle /\ ProcIdle

\* psutil.disk_partitions() lists one more partition
DiskPartitionsYield ==
    /\ pc = "disk_partitions"
    /\ Len(partitions) < MaxPartitions
    /\ \E m \in Mounts, u \in UsageOutcomes :
          partitions' = Append(partitions, Partition(m, u))
    /\ UNCHANGED <<arg, alert_thresholds, args, pc, snapshot, health_data, calls,
                   returned, failures, last_save, interrupted_at>>
    /\ UNCHANGED <<disk_result, procVars>>

CallGetDiskInfo ==
    /\ pc = "disk_partitions"
    /\ \E raises \in BOOLEAN :
          /\ raises => partitions = <<>>
          /\ disk_result' = get_disk_info([raises |-> raises, partitions |-> partitions])
          /\ pc' = IF raises THEN "disk_enumeration_failed" ELSE "disk_done"
    /\ UNCHANGED <<arg, alert_thresholds, args, snapshot, health_data, calls,
                   returned, failures, last_save, interrupted_at>>
    /\ UNCHANGED <<partitions, procVars>>

NextDisk == DiskPartitionsYield \/ CallGetDiskInfo

SpecDisk == InitDisk /\ [][NextDisk]_vars

----------------------------------------------------------------------------
(* get_process_info on every enumeration of processes *)

InitProc == ProgIdle("process_iter") /\ DiskIdle /\ ProcIdle

\* psutil.process_iter() yields one more process
ProcessIterYield ==
    /\ pc = "process_iter"
    /\ Len(proc_iter) < MaxProcs
    /\ \E pid \in 1..MaxPid, o \in ProcOutcomes :
          /\ \A i \in 1..Len(proc_iter) : proc_iter[i].pid # pid
          /\ proc_iter' = Append(proc_iter, ProcEntry(pid, o))
    /\ UNCHANGED <<arg, alert_thresholds, args, pc, snapshot, health_data, calls,
                   returned, failures, last_save, interrupted_at>>
    /\ UNCHANGED <<top_n, proc_result, diskVars>>

CallGetProcessInfo ==
    /\ pc = "process_iter"
    /\ \E n \in TopNs, raises \in BOOLEAN :
          /\ raises => proc_iter = <<>>
          /\ top_n' = n
          /\ proc_result' = get_process_info([raises |-> raises, entries |-> proc_iter], n)
          /\ pc' = IF raises THEN "proc_enumeration_failed" ELSE "proc_done"
    /\ UNCHANGED <<arg, alert_thresholds, args, snapshot, health_data, calls,
                   returned, failures, last_save, interrupted_at>>
    /\ UNCHANGED <<proc_iter, diskVars>>

NextProc == ProcessIterYield \/ CallGetProcessInfo

SpecProc == InitProc /\ [][NextProc]_vars

----------------------------------------------------------------------------
(* collect_all_metrics, one step per call it makes.  A category is the     *)
(* name of its snapshot field without "_info".                             *)

Field(c) == IF c = "system" THEN "system_info"
            ELSE IF c = "cpu" THEN "cpu_info"
            ELSE IF c = "memory" THEN "memory_info"
            ELSE IF c = "disk" THEN "disk_info"
            ELSE IF c = "network" THEN "network_info"
            ELSE "process_info"

\* Where an exception that leaves collect_all_metrics or save_to_file ends:
\* in main() at "except Exception" (sys.exit(1)), else at the caller.
Propagated == IF args.main THEN "exit1" ELSE "raised"

\* The disk query as a whole fails: the enumeration raises, a usage lookup
\* raises something other than PermissionError, or the percent divides by 0.
DiskOutcomeFails(out) ==
    \/ out.raises
    \/ \E i \in 1..Len(out.partitions) :
          \/ out.partitions[i].lookup \notin {"ok", "PermissionError"}
          \/ out.partitions[i].lookup = "ok" /\ out.partitions[i].total = 0

ProcOutcomeFails(out) ==
    \/ out.raises
    \/ \E i \in 1..Len(out.entries) :
          out.entries[i].access \notin {"ok", "NoSuchProcess", "AccessDenied"}

\* timestamp = datetime.datetime.now().strftime(...)
CollectBegin ==
    /\ pc = "call_collect"
    /\ snapshot' = [timestamp |-> "now"]
    /\ calls' = NoCalls
    /\ returned' = <<>>
    /\ failures' = {}
    /\ pc' = "system"
    /\ UNCHANGED <<arg, alert_thresholds, args, health_data, last_save, interrupted_at>>
    /\ UNCHANGED <<diskVars, procVars>>

\* 'c_info': self.get_c_info() with result r; failed: the OS query raised.
QueryStep(c, r, failed, next) ==
    /\ calls' = [calls EXCEPT ![c] = @ + 1]
    /\ failures' = IF failed THEN failures \cup {c} ELSE failures
    /\ IF r.raised
       THEN pc' = Propagated /\ UNCHANGED <<snapshot, returned>>
       ELSE /\ snapshot' = (Field(c) :> r.value) @@ snapshot
            /\ returned' = (c :> r.value) @@ returned
            /\ pc' = next
    /\ UNCHANGED <<arg, alert_thresholds, args, health_data, last_save, interrupted_at>>
    /\ UNCHANGED <<diskVars, procVars>>

QuerySystem(Outs) ==
    /\ pc = "system"
    /\ \E out \in Outs : QueryStep("system", get_system_info(out), out.raises, "cpu")

QueryCpu(Outs) ==
    /\ pc = "cpu"
    /\ \E out \in Outs : QueryStep("cpu", get_cpu_info(out), out.raises, "memory")

QueryMemory(Outs) ==
    /\ pc = "memory"
    /\ \E out \in Outs : QueryStep("memory", get_memory_info(out), out.raises, "disk")

QueryDisk(Outs) ==
    /\ pc = "disk"
    /\ \E out \in Outs :
          QueryStep("disk", get_disk_info(out), DiskOutcomeFails(out), "network")

QueryNetwork(Outs) ==
    /\ pc = "network"
    /\ \E out \in Outs :
          QueryStep("network", get_network_info(out), out.raises, "processes")

QueryProcesses(Outs) ==
    /\ pc = "processes"
    /\ \E out \in Outs :
          QueryStep("processes", get_process_info(out, DefaultTopN),
                    ProcOutcomeFails(out), "alerts")

\* health_data['alerts'] = self.check_alerts(health_data)
CollectCheckAlerts ==
    /\ pc = "alerts"
    /\ LET r == check_alerts(snapshot, alert_thresholds) IN
          IF r.raised
          THEN pc' = Propagated /\ UNCHANGED snapshot
          ELSE snapshot' = ("alerts" :> r.value) @@ snapshot /\ pc' = "return"
    /\ UNCHANGED <<arg, alert_thresholds, args, health_data, calls, returned,
                   failures, last_save, interrupted_at>>
    /\ UNCHANGED <<diskVars, procVars>>

\* return health_data
CollectReturn ==
    /\ pc = "return"
    /\ health_data' = snapshot
    /\ pc' = IF args.main THEN "print_summary" ELSE "returned"
    /\ UNCHANGED <<arg, alert_thresholds, args, snapshot, calls, returned,
                   failures, last_save, interrupted_at>>
    /\ UNCHANGED <<diskVars, procVars>>

----------------------------------------------------------------------------
(* The monitor used directly: constructed with any argument, then one      *)
(* collect_all_metrics.                                                    *)

\* The values a caller supplies for the keys it specifies.
Supplied == [cpu_percent |-> 50, memory_percent |-> 60, disk_percent |-> 70]

ThresholdArgs ==
    {NoneArg} \cup {DictArg([k \in S |-> Supplied[k]]) : S \in SUBSET Keys}

PartitionLists ==
    UNION {[1..n -> {Partition(m, u) : m \in Mounts, u \in UsageOutcomes}] :
              n \in 0..MaxPartitions}

SystemOutcomes ==
    {[raises |-> TRUE, hostname |-> ""], [raises |-> FALSE, hostname |-> "host"]}

PercentOutcomes(P) ==
    {[raises |-> TRUE, percent |-> 0]} \cup {[raises |-> FALSE, percent |-> p] : p \in P}

DiskOutcomes(L) ==
    {[raises |-> TRUE, partitions |-> <<>>]}
    \cup {[raises |-> FALSE, partitions |-> ps] : ps \in L}

NetworkOutcomes ==
    {[raises |-> TRUE, bytes_sent |-> 0], [raises |-> FALSE, bytes_sent |-> 1]}

ProcessOutcomes ==
    {[raises |-> TRUE, entries |-> <<>>],
     [raises |-> FALSE, entries |-> <<>>],
     [raises |-> FALSE,
      entries |-> << ProcEntry(2, [access |-> "ok", cpu_percent |-> Num(1),
                                  memory_percent |-> Null]),
                     ProcEntry(1, [access |-> "AccessDenied", cpu_percent |-> Null,
                                  memory_percent |-> Null]) >>]}

InitCollect ==
    /\ arg \in ThresholdArgs
    /\ alert_thresholds = SystemHealthMonitor_init(arg)
    /\ args = NoArgs
    /\ pc = "call_collect"
    /\ snapshot = <<>>
    /\ health_data = <<>>
    /\ calls = NoCalls
    /\ returned = <<>>
    /\ failures = {}
    /\ last_save = "none"
    /\ interrupted_at = "none"
    /\ DiskIdle
    /\ ProcIdle

NextCollect ==
    \/ CollectBegin
    \/ QuerySystem(SystemOutcomes)
    \/ QueryCpu(PercentOutcomes({50, 80, 81}))
    \/ QueryMemory(PercentOutcomes({60, 85, 86}))
    \/ QueryDisk(DiskOutcomes(PartitionLists))
    \/ QueryNetwork(NetworkOutcomes)
    \/ QueryProcesses(ProcessOutcomes)
    \/ CollectCheckAlerts
    \/ CollectReturn

SpecCollect == InitCollect /\ [][NextCollect]_vars

----------------------------------------------------------------------------
(* main() *)

\* argparse: the thresholds always have a value (the defaults, or the flags)
MainArgs ==
    {[main |-> TRUE, continuous |-> c, save |-> s,
      cpu_threshold |-> DefaultCpu, memory_threshold |-> DefaultMemory,
      disk_threshold |-> DefaultDisk] : c \in BOOLEAN, s \in BOOLEAN}

\* thresholds = {'cpu_percent': args.cpu_threshold, ...}
MainThresholds(a) ==
    DictArg([cpu_percent |-> a.cpu_threshold, memory_percent |-> a.memory_threshold,
             disk_percent |-> a.disk_threshold])

\* What the write of the output file can do.
WriteOutcomes == {"ok", "OSError"}

save_to_file_uncaught(w) ==
    IF w = "ok" THEN Return("Health data saved to") ELSE Raise(w)

\* save_to_file: the message it prints
save_to_file(w) ==
    IF w = "ok" THEN Return("Health data saved to") ELSE Return("Error saving to file")

\* after the "if args.save" block: time.sleep in the loop, or the end of main
AfterSave == IF args.continuous THEN "sleep" ELSE "exit_normal"

InitMain ==
    /\ args \in MainArgs
    /\ arg = MainThresholds(args)
    /\ alert_thresholds = SystemHealthMonitor_init(arg)
    /\ pc = "call_collect"
    /\ snapshot = <<>>
    /\ health_data = <<>>
    /\ calls = NoCalls
    /\ returned = <<>>
    /\ failures = {}
    /\ last_save = [write |-> "none", printed |-> ""]
    /\ interrupted_at = "none"
    /\ DiskIdle
    /\ ProcIdle

\* monitor.print_summary(health_data)
PrintSummary ==
    /\ pc = "print_summary"
    /\ pc' = IF args.save THEN "save_to_file" ELSE AfterSave
    /\ UNCHANGED <<arg, alert_thresholds, args, snapshot, health_data, calls,
                   returned, failures, last_save, interrupted_at>>
    /\ UNCHANGED <<diskVars, procVars>>

\* monitor.save_to_file(health_data, args.output)
SaveToFile ==
    /\ pc = "save_to_file"
    /\ \E w \in WriteOutcomes :
          LET r == save_to_file(w) IN
          IF r.raised
          THEN /\ last_save' = [write |-> w, printed |-> "Error"]
               /\ pc' = Propagated
          ELSE /\ last_save' = [write |-> w, printed |-> r.value]
               /\ pc' = AfterSave
    /\ UNCHANGED <<arg, alert_thresholds, args, snapshot, health_data, calls,
                   returned, failures, interrupted_at>>
    /\ UNCHANGED <<diskVars, procVars>>

\* time.sleep(args.interval) returns; the loop calls collect_all_metrics again
Sleep ==
    /\ pc = "sleep"
    /\ pc' = "call_collect"
    /\ UNCHANGED <<arg, alert_thresholds, args, snapshot, health_data, calls,
                   returned, failures, last_save, interrupted_at>>
    /\ UNCHANGED <<diskVars, procVars>>

Running ==
    {"call_collect", "system", "cpu", "memory", "disk", "network", "processes",
     "alerts", "return", "print_summary", "save_to_file", "sleep"}

\* Ctrl+C: KeyboardInterrupt is raised wherever the program is.  It is no
\* Exception, so no "except Exception" of the queries or of save_to_file
\* catches it; main() catches it and exits with status 0.
KeyboardInterrupt ==
    /\ pc \in Running
    /\ interrupted_at' = pc
    /\ pc' = "interrupted"
    /\ UNCHANGED <<arg, alert_thresholds, args, snapshot, health_data, calls,
                   returned, failures, last_save>>
    /\ UNCHANGED <<diskVars, procVars>>

MainPartitionLists ==
    {<<Partition("/", [lookup |-> "ok", used |-> 91, total |-> 100])>>}

MainProcessOutcomes ==
    {o \in ProcessOutcomes : o.raises \/ o.entries # <<>>}

\* The steps of the program itself.
Program ==
    \/ CollectBegin
    \/ QuerySystem(SystemOutcomes)
    \/ QueryCpu(PercentOutcomes({81}))
    \/ QueryMemory(PercentOutcomes({86}))
    \/ QueryDisk(DiskOutcomes(MainPartitionLists))
    \/ QueryNetwork(NetworkOutcomes)
    \/ QueryProcesses(MainProcessOutcomes)
    \/ CollectCheckAlerts
    \/ CollectReturn
    \/ PrintSummary
    \/ SaveToFile
    \/ Sleep

Next == Program \/ KeyboardInterrupt

Spec == InitMain /\ [][Next]_vars

\* The interpreter keeps running the program: every call of the loop returns
\* (the queries and the sleep block for a bounded time).
FairSpec == Spec /\ WF_vars(Program)

----------------------------------------------------------------------------
(* Properties *)

SnapshotKeys ==
    {"timestamp", "system_info", "cpu_info", "memory_info", "disk_info",
     "network_info", "process_info", "alerts"}

\* An explicit error marker: the dict {'error': ...}
IsErrorMarker(c, v) == IF c = "disk" THEN HasKey(v, "error") ELSE "error" \in DOMAIN v

\* Valid data of a category
IsData(c, v) ==
    IF c = "system" THEN "hostname" \in DOMAIN v
    ELSE IF c = "cpu" THEN "cpu_percent" \in DOMAIN v
    ELSE IF c = "memory" THEN "memory_percent" \in DOMAIN v
    ELSE IF c = "disk" THEN \A i \in 1..Len(v) : v[i].val.isdict
    ELSE IF c = "network" THEN "error" \notin DOMAIN v
    ELSE "total_processes" \in DOMAIN v

\* collect_all_metrics has ended: it returned, or an exception left it
CollectEnded == pc \in {"returned", "raised"}

\* The threshold of a category as the caller configured it: the value given
\* for it, else the default.
Configured(k) ==
    IF ~arg.isNone /\ k \in DOMAIN arg.dict THEN arg.dict[k] ELSE DefaultThresholds[k]

\* C1: for every outcome of the six queries and every argument the monitor
\* can be constructed with, collect_all_metrics returns a snapshot that holds
\* the timestamp, the six category fields and the alerts, each category field
\* valid data or an error marker.
C1_AlwaysReturnsSnapshot ==
    CollectEnded =>
        /\ pc = "returned"
        /\ DOMAIN health_data = SnapshotKeys
        /\ \A c \in Categories :
              \/ IsErrorMarker(c, health_data[Field(c)])
              \/ IsData(c, health_data[Field(c)])

\* C2: whatever queries fail in one collect_all_metrics, every category's
\* query is invoked exactly once, every snapshot field holds exactly what its
\* query returned, and a field is an error marker exactly when its own query
\* failed.
C2_FailuresStayInCategory ==
    /\ \A c \in Categories : calls[c] <= 1
    /\ pc \in {"alerts", "return", "returned", "raised"} =>
          \A c \in Categories :
              /\ calls[c] = 1
              /\ c \in DOMAIN returned
              /\ Field(c) \in DOMAIN snapshot
              /\ snapshot[Field(c)] = returned[c]
              /\ IsErrorMarker(c, snapshot[Field(c)]) <=> c \in failures
    /\ pc = "returned" =>
          \A c \in Categories : health_data[Field(c)] = returned[c]

\* C2 witness: a collect that returned with some queries failed, others not
C2_Witness ==
    /\ pc = "returned"
    /\ failures = {"cpu", "disk"}
    /\ ~IsErrorMarker("memory", health_data.memory_info)
    /\ IsErrorMarker("cpu", health_data.cpu_info)

HasAlert(alerts, msg) == \E i \in 1..Len(alerts) : alerts[i].msg = msg

HasDiskAlert(alerts, m) ==
    \E i \in 1..Len(alerts) : alerts[i].msg = "HIGH DISK USAGE" /\ alerts[i].mount = m

\* The alert rule on a snapshot hd with alerts a, for the thresholds t(k)
AlertRule(hd, a, t(_)) ==
    /\ HasAlert(a, "HIGH CPU USAGE") <=>
          /\ "cpu_percent" \in DOMAIN hd.cpu_info
          /\ hd.cpu_info.cpu_percent > t("cpu_percent")
    /\ HasAlert(a, "HIGH MEMORY USAGE") <=>
          /\ "memory_percent" \in DOMAIN hd.memory_info
          /\ hd.memory_info.memory_percent > t("memory_percent")
    /\ \A m \in Mounts \cup {"error"} :
          HasDiskAlert(a, m) <=>
              \E i \in 1..Len(hd.disk_info) :
                  /\ hd.disk_info[i].key = m
                  /\ hd.disk_info[i].val.isdict
                  /\ hd.disk_info[i].val.percent > t("disk_percent")

\* C3: for every threshold argument and every snapshot, check_alerts does not
\* fail, and alerts for cpu, memory and each mount point exactly when the
\* percent is present and strictly greater than the category's threshold.
C3_AlertIffAboveThreshold ==
    CollectEnded =>
        /\ pc = "returned"
        /\ AlertRule(health_data, health_data.alerts, Configured)

\* The same rule on the collects that returned (checked beside C3).
AlertRuleWhenReturned ==
    pc = "returned" => AlertRule(health_data, health_data.alerts, Configured)

Rank(a) == IF a.msg = "HIGH CPU USAGE" THEN 1
           ELSE IF a.msg = "HIGH MEMORY USAGE" THEN 2 ELSE 3

IsDiskAlert(a) == a.msg = "HIGH DISK USAGE"

\* C4: the alerts check_alerts returned are the cpu alert (at most one), then
\* the memory alert (at most one), then one disk alert per offending mount
\* point, in the order in which the disk mapping iterates.
C4_AlertOrder ==
    "alerts" \in DOMAIN snapshot =>
        LET a == snapshot.alerts
            d == SelectSeq(a, IsDiskAlert)
            items == snapshot.disk_info
            Offending(it) ==
                it.val.isdict /\ it.val.percent > alert_thresholds.disk_percent
            off == SelectSeq(items, Offending)
        IN /\ \A i, j \in 1..Len(a) : i < j => Rank(a[i]) <= Rank(a[j])
           /\ Cardinality({i \in 1..Len(a) : Rank(a[i]) = 1}) <= 1
           /\ Cardinality({i \in 1..Len(a) : Rank(a[i]) = 2}) <= 1
           /\ Len(d) = Len(off)
           /\ \A i \in 1..Len(d) : d[i].mount = off[i].key

\* C4 witness: a cpu alert, a memory alert and two disk alerts, the disk
\* mapping iterating "/data" before "/"
C4_Witness ==
    /\ "alerts" \in DOMAIN snapshot
    /\ Len(snapshot.alerts) = 4
    /\ Len(snapshot.disk_info) = 2
    /\ snapshot.disk_info[1].key = "/data"

\* C5: when one partition's usage lookup fails, for any cause, get_disk_info
\* returns no error marker and an entry for every partition whose lookup
\* succeeded.
C5_FailedLookupOmitsOnlyThatPartition ==
    (pc = "disk_done" /\ \E i \in 1..Len(partitions) : partitions[i].lookup # "ok") =>
        /\ ~disk_result.raised
        /\ ~IsErrorMarker("disk", disk_result.value)
        /\ \A j \in 1..Len(partitions) :
              partitions[j].lookup = "ok" =>
                  HasKey(disk_result.value, partitions[j].mountpoint)

\* The same for the lookups that fail with PermissionError, the usage
\* figures being well formed (checked beside C5).
PermissionErrorOmitsOnlyThatPartition ==
    (/\ pc = "disk_done"
     /\ \A i \in 1..Len(partitions) :
           /\ partitions[i].lookup \in {"ok", "PermissionError"}
           /\ partitions[i].lookup = "ok" => partitions[i].total # 0) =>
        /\ ~IsErrorMarker("disk", disk_result.value)
        /\ \A j \in 1..Len(partitions) :
              partitions[j].lookup = "ok" =>
                  HasKey(disk_result.value, partitions[j].mountpoint)

\* C6: after construction every category has a threshold: the value the
\* argument gives for it, else the default; so alert evaluation never lacks
\* a threshold.
C6_UnspecifiedFallBackToDefaults ==
    /\ \A k \in Keys :
          k \in DOMAIN alert_thresholds /\ alert_thresholds[k] = Configured(k)
    /\ pc # "raised"

Inaccessible == {"NoSuchProcess", "AccessDenied"}

\* The enumeration met only readable, vanished or inaccessible entries.
EnumerationCompleted ==
    /\ pc = "proc_done"
    /\ \A i \in 1..Len(proc_iter) : proc_iter[i].access \in {"ok"} \cup Inaccessible

InaccessiblePids ==
    {proc_iter[i].pid : i \in {j \in 1..Len(proc_iter) : proc_iter[j].access \in Inaccessible}}

\* The entries read successfully, as get_process_info keeps them
ValidInfos ==
    {[pid |-> proc_iter[i].pid, cpu_percent |-> proc_iter[i].cpu_percent,
      memory_percent |-> proc_iter[i].memory_percent] :
        i \in {j \in 1..Len(proc_iter) : proc_iter[j].access = "ok"}}

\* C7: with N inaccessible or vanished entries among M, get_process_info
\* succeeds, total_processes is M - N, and no top list holds an inaccessible
\* entry.
C7_InaccessibleSkipped ==
    EnumerationCompleted =>
        /\ ~proc_result.raised
        /\ "error" \notin DOMAIN proc_result.value
        /\ proc_result.value.total_processes =
              Len(proc_iter) - Cardinality(InaccessiblePids)
        /\ \A i \in 1..Len(proc_result.value.top_cpu_processes) :
              proc_result.value.top_cpu_processes[i].pid \notin InaccessiblePids
        /\ \A i \in 1..Len(proc_result.value.top_memory_processes) :
              proc_result.value.top_memory_processes[i].pid \notin InaccessiblePids

\* C7 witness: two entries of three inaccessible (one vanished, one denied),
\* the third in the top lists
C7_Witness ==
    /\ EnumerationCompleted
    /\ Len(proc_iter) = 3
    /\ \E i, j \in 1..3 : /\ proc_iter[i].access = "NoSuchProcess"
                          /\ proc_iter[j].access = "AccessDenied"
    /\ Len(proc_result.value.top_cpu_processes) = 1

\* Position of a process in the enumeration
EnumIndex(pid) == CHOOSE i \in 1..Len(proc_iter) : proc_iter[i].pid = pid

\* a ranks before b: higher percent (None as 0), equal percents by pid
BeforeByPid(a, b, field) ==
    \/ KeyOf(a, field) > KeyOf(b, field)
    \/ KeyOf(a, field) = KeyOf(b, field) /\ a.pid < b.pid

\* a ranks before b: higher percent (None as 0), equal percents by position
\* in the enumeration
BeforeByEnumeration(a, b, field) ==
    \/ KeyOf(a, field) > KeyOf(b, field)
    \/ KeyOf(a, field) = KeyOf(b, field) /\ EnumIndex(a.pid) < EnumIndex(b.pid)

\* R is the first min(top_n, number of valid processes) of the valid
\* processes in the ranking Before
TopList(R, field, Before(_, _, _)) ==
    /\ Len(R) = Min(top_n, Cardinality(ValidInfos))
    /\ \A i \in 1..Len(R) : R[i] \in ValidInfos
    /\ \A i, j \in 1..Len(R) : i < j => Before(R[i], R[j], field)
    /\ \A p \in ValidInfos :
          (\A i \in 1..Len(R) : R[i] # p) =>
              \A i \in 1..Len(R) : Before(R[i], p, field)

\* C8 as claimed: each top list is the min(N, valid) highest-ranked
\* processes, sorted descending by percent (None as 0), equal percents
\* ordered by process ID ascending, whatever the enumeration order.
C8_TopListsTiesByPid ==
    EnumerationCompleted =>
        /\ TopList(proc_result.value.top_cpu_processes, "cpu_percent", BeforeByPid)
        /\ TopList(proc_result.value.top_memory_processes, "memory_percent",
                   BeforeByPid)

\* C8 as amended: each top list is the min(N, valid) highest-ranked
\* processes, sorted descending by percent (None as 0), equal percents
\* ordered as the processes were enumerated.
C8_TopListsTiesByEnumeration ==
    EnumerationCompleted =>
        /\ TopList(proc_result.value.top_cpu_processes, "cpu_percent",
                   BeforeByEnumeration)
        /\ TopList(proc_result.value.top_memory_processes, "memory_percent",
                   BeforeByEnumeration)

\* C8 witness: three valid processes, two of them with equal cpu percent
\* (None and 0) enumerated with the higher pid first, and a list cut to 2
C8_Witness ==
    /\ EnumerationCompleted
    /\ top_n = 2
    /\ Cardinality(ValidInfos) = 3
    /\ Len(proc_result.value.top_cpu_processes) = 2
    /\ \E i, j \in 1..Len(proc_iter) :
          /\ i < j
          /\ proc_iter[i].pid > proc_iter[j].pid
          /\ proc_iter[i].cpu_percent = Null
          /\ proc_iter[j].cpu_percent = Num(0)
          /\ proc_result.value.top_cpu_processes[2].pid = proc_iter[i].pid

\* collect_all_metrics has started building a snapshot and has not built it
InCollect == {"system", "cpu", "memory", "disk", "network", "processes", "alerts"}

\* C9: in continuous mode a user interrupt stops the loop only between
\* iterations, never while a collect is in progress: when the loop stops, the
\* snapshot is fully built or not started.
C9_InterruptOnlyBetweenIterations ==
    (args.main /\ args.continuous /\ pc = "interrupted") =>
        /\ interrupted_at \notin InCollect
        /\ DOMAIN snapshot \in {{}, SnapshotKeys}

WriteFailed == last_save.write = "OSError"

\* save_to_file has just failed to write
SaveFails == pc = "save_to_file" /\ pc' # "interrupted" /\ pc' # pc /\ WriteFailed'

\* C10: in continuous mode with --save, a failed write of the output file is
\* reported as a message and the loop goes on: the step after the failure is
\* the sleep, main never exits with status 1, the sleep is followed by the
\* next collect_all_metrics unless the user interrupts, and under fair
\* scheduling that collect (or the interrupt) does come.
C10_WriteFailureNotFatal ==
    /\ [][(args.continuous /\ SaveFails) =>
            (pc' = "sleep" /\ last_save'.printed = "Error saving to file")]_vars
    /\ [](pc # "exit1")
    /\ [][(pc = "sleep" /\ pc' # pc) => pc' \in {"call_collect", "interrupted"}]_vars
    /\ [][(pc = "call_collect" /\ pc' # pc) => pc' \in {"system", "interrupted"}]_vars
    /\ (args.continuous /\ WriteFailed /\ pc = "sleep")
          ~> (pc = "system" \/ pc = "interrupted")

\* C10 witness: the next collect has started after a failed write
C10_Witness ==
    /\ args.continuous
    /\ args.save
    /\ WriteFailed
    /\ last_save.printed = "Error saving to file"
    /\ pc = "cpu"
    /\ health_data # <<>>

====
